---- MODULE Spec2Model ----
(***************************************************************************)
(* Model of @otterhttp/session: the session resolver (sessionHandle), the  *)
(* operations it attaches to a session (commit, touch, destroy), the late  *)
(* header action that decides the Set-Cookie header, and the session       *)
(* store contract.  Times are milliseconds; maxAge and touchAfter are      *)
(* seconds, as in the source.                                              *)
(***************************************************************************)
EXTENDS Integers, Sequences, FiniteSets, TLC

VARIABLES
    options,      \* the Options the middleware was built with (session(options))
    store,        \* the session store: id -> stored record or nothing
    clock,        \* Date.now()
    genCount,     \* how many ids genId has produced
    reqCookie,    \* req.cookies[name]: the session cookie the client sent, if any
    reqSession,   \* req.session: index into sessions, 0 when undefined
    sessions,     \* the Session objects created while handling this request
    hook,         \* the late header action registered under the lateHeaderAction
                  \* symbol: index of the session its closure holds, 0 when none
    hookRegs,     \* number of registerLateHeaderAction calls in this request
    headersSent,  \* res.headersSent
    setCookie,    \* the Set-Cookie headers appended to the response
    storeLog,     \* the store calls made while handling this request
    finalized,    \* number of res.writeHead() / res.end() calls in this request
    ops,          \* number of calls the handler has made in this request
    did,          \* the kinds of call the handler has made in this request
    lastOp,       \* the call the handler made last, the session it was made on
                  \* (for sessionHandle: the session it returned)
    outcome,      \* how the handler's last call ended: "ok", or "rejected" / "threw"
    setArg,       \* the object the last store.set call was given, if any
    cookieFlags,  \* state of the request's Cookie object: "signed" once it was
                  \* unsigned, "invalid" when reading its value throws
    prev,         \* what the previous request of the client left, if there was one
    failing,      \* the store operations that reject (the store is unavailable
                  \* for them) while this request is handled
    inflight,     \* the sessionHandle calls of this request that are awaiting
                  \* store.get: the _now each captured, the id it asked for and
                  \* the record the store will answer with
    other         \* a second request being handled at the same time, suspended
                  \* at an await while this one runs, if there is one

vars == <<options, store, clock, genCount, reqCookie, reqSession, sessions,
          hook, hookRegs, headersSent, setCookie, storeLog, finalized, ops, did, lastOp,
          outcome, setArg, cookieFlags, prev, failing, inflight, other>>

----------------------------------------------------------------------------
(* Bounds of the model *)

MaxOps == 4          \* calls the handler makes per request
MaxTicks == 2        \* clock steps of TickMs
MaxMaxAge == 1       \* largest maxAge (seconds) configured or stored
MaxTouchAfter == 1   \* largest touchAfter (seconds) configured

TickMs == 500
StartClock == 10000

----------------------------------------------------------------------------
(* Optional values: undefined is the empty set, a present value a singleton *)

None == {}
Some(x) == {x}
Val(o) == CHOOSE x \in o : TRUE

(* A Date, and the text JSON gives for one *)
DateOf(ms) == [type |-> "Date", ms |-> ms]
TextOf(ms) == [type |-> "string", iso |-> ms]

\* Date.prototype.toJSON / JSON.stringify of a Date
DateToJSON(d) == IF d.type = "Date" THEN TextOf(d.ms) ELSE d

\* new Date(text)
NewDateFromString(s) == DateOf(s.iso)

\* Date.prototype.getTime
GetTime(d) == d.ms

----------------------------------------------------------------------------
(* Identifiers, field names and values *)

ClientIds == {"foo"}

\* Cookie values that carry a signature: a valid one over "foo", a forged one
SignedValues == {"s:foo", "s:bad"}

\* options.cookie.unsign(signedValue): the value the signature covers; it throws
\* (None here) when the signature is missing or wrong
unsign(v) == IF v = "s:foo" THEN Some("foo") ELSE None

GenIdPool == <<"g1", "g2", "g3", "g4", "g5", "g6", "g7", "g8", "g9", "g10", "g11", "g12">>
GenIds == {GenIdPool[i] : i \in 1..Len(GenIdPool)}
Ids == ClientIds \cup SignedValues \cup GenIds

\* genId(): the n-th identifier produced
genId(n) == GenIdPool[n]

Keys == {"foo"}
Values == {"quz"}

name == "sid"

----------------------------------------------------------------------------
(* Cookie attributes, session records and sessions *)

\* The attribute set of types.ts Cookie, before maxAge/expires are added
BaseCookie(path, httpOnly, domain, sameSite, secure) ==
    [path |-> path, httpOnly |-> httpOnly, domain |-> domain, sameSite |-> sameSite,
     secure |-> secure, maxAge |-> None, expires |-> None]

\* options.cookie: every attribute optional
DefaultCookieOpts ==
    [path |-> None, httpOnly |-> None, domain |-> None, sameSite |-> None,
     secure |-> None]
CustomCookieOpts ==
    [path |-> Some("/app"), httpOnly |-> Some(FALSE), domain |-> Some("example.com"),
     sameSite |-> Some("lax"), secure |-> Some(TRUE)]

CookieOptsSet ==
    {[attrs |-> DefaultCookieOpts, maxAge |-> m] :
        m \in {None} \cup {Some(k) : k \in 0..MaxMaxAge}}
    \cup {[attrs |-> CustomCookieOpts, maxAge |-> Some(MaxMaxAge)]}

OptionsSet ==
    [touchAfter : -1..MaxTouchAfter, cookie : CookieOptsSet, storeTouch : BOOLEAN,
     unsign : {FALSE}]

\* Mutant of NewSessionCookie: httpOnly || true, so a configured false is lost
NewSessionCookie_httpOnlyOr(cookieOpts, now) ==
    LET a == cookieOpts.attrs
        base == BaseCookie(
                   IF a.path # None THEN Val(a.path) ELSE "/",
                   TRUE,
                   a.domain,
                   a.sameSite,
                   IF a.secure # None THEN Val(a.secure) ELSE FALSE)
    IN  IF cookieOpts.maxAge # None /\ Val(cookieOpts.maxAge) # 0
        THEN [base EXCEPT !.maxAge = cookieOpts.maxAge,
                          !.expires = Some(DateOf(now + Val(cookieOpts.maxAge) * 1000))]
        ELSE base

\* Mutant of NewSessionCookie: maxAge is copied, cookie.expires is not computed
NewSessionCookie_maxAgeOnly(cookieOpts, now) ==
    LET a == cookieOpts.attrs
        base == BaseCookie(
                   IF a.path # None THEN Val(a.path) ELSE "/",
                   IF a.httpOnly # None THEN Val(a.httpOnly) ELSE TRUE,
                   a.domain,
                   a.sameSite,
                   IF a.secure # None THEN Val(a.secure) ELSE FALSE)
    IN  IF cookieOpts.maxAge # None /\ Val(cookieOpts.maxAge) # 0
        THEN [base EXCEPT !.maxAge = cookieOpts.maxAge]
        ELSE base

\* The cookie of a new session (session.ts, new-session branch)
NewSessionCookie(cookieOpts, now) ==
    LET a == cookieOpts.attrs
        base == BaseCookie(
                   IF a.path # None THEN Val(a.path) ELSE "/",
                   IF a.httpOnly # None THEN Val(a.httpOnly) ELSE TRUE,
                   a.domain,
                   a.sameSite,
                   IF a.secure # None THEN Val(a.secure) ELSE FALSE)
    IN  IF cookieOpts.maxAge # None /\ Val(cookieOpts.maxAge) # 0
        THEN [base EXCEPT !.maxAge = cookieOpts.maxAge,
                          !.expires = Some(DateOf(now + Val(cookieOpts.maxAge) * 1000))]
        ELSE base

\* A Session object: the record's fields and cookie, the id and the captured _now
\* that decorateSession binds, and the flags that are set on it
NewSession(id, cookieOpts, now) ==
    [id |-> id, fields |-> <<>>, cookie |-> NewSessionCookie(cookieOpts, now),
     flags |-> {"isNew"}, now |-> now]

\* Object.keys(session): "cookie" and the application fields
ObjectKeys(s) == {"cookie"} \cup DOMAIN s.fields

\* The properties decorateSession defines on a session: own, not enumerable
DecoratedProperties == {"commit", "touch", "destroy", "id"}

\* Object.getOwnPropertyNames(session): enumerable or not
OwnPropertyNames(s) == ObjectKeys(s) \cup DecoratedProperties

\* Object.getOwnPropertySymbols(session): the flags set on it
OwnPropertySymbols(s) == s.flags

----------------------------------------------------------------------------
(* The session store (types.ts SessionStore; the in-memory store keeps a   *)
(* JSON snapshot of what it is given)                                      *)

\* JSON.stringify(session): symbol-keyed flags and the non-enumerable id and
\* operations are dropped, a Date becomes text
Serialize(s) ==
    [fields |-> s.fields,
     cookie |-> [s.cookie EXCEPT
                   !.expires = IF @ = None THEN None ELSE Some(DateToJSON(Val(@)))]]

StoreGet(st, id) == st[id]
StoreSet(st, id, s) == [st EXCEPT ![id] = Some(Serialize(s))]
StoreDestroy(st, id) == [st EXCEPT ![id] = None]
StoreTouch(st, id, s) ==
    IF st[id] = None THEN st
    ELSE [st EXCEPT ![id] = Some([Val(@) EXCEPT !.cookie = Serialize(s).cookie])]

\* A record a store may hold before the first request: written at StartClock
StoredRecord(maxAge) ==
    [fields |-> ("foo" :> "bar"),
     cookie |-> [BaseCookie("/", TRUE, None, None, FALSE) EXCEPT
                   !.maxAge = maxAge,
                   !.expires = IF maxAge = None THEN None
                               ELSE Some(TextOf(StartClock + Val(maxAge) * 1000))]]

StoreHolding(r) == [id \in Ids |-> IF id = "foo" THEN r ELSE None]

\* The first request and the store it meets: no cookie, a cookie whose id the
\* store does not know, or the cookie of a stored session
InitialRequests ==
    {[cookie |-> None, store |-> StoreHolding(None)],
     [cookie |-> Some("foo"), store |-> StoreHolding(None)]}
    \cup {[cookie |-> Some("foo"), store |-> StoreHolding(Some(StoredRecord(m)))] :
            m \in {None} \cup {Some(k) : k \in 1..MaxMaxAge}}

----------------------------------------------------------------------------
(* The operations decorateSession attaches to a session *)

\* Mutant of touched: the expiry is counted from Date.now() at the call, not from
\* the _now captured at resolution
touched_fromClock(s) ==
    [s EXCEPT !.cookie.expires =
                  IF s.cookie.maxAge # None
                  THEN Some(DateOf(clock + Val(s.cookie.maxAge) * 1000))
                  ELSE @,
              !.flags = @ \cup {"isTouched"}]

\* Mutant of touched: the expiry is set to _now itself, maxAge is not added
touched_withoutMaxAge(s) ==
    [s EXCEPT !.cookie.expires =
                  IF s.cookie.maxAge # None
                  THEN Some(DateOf(s.now))
                  ELSE @,
              !.flags = @ \cup {"isTouched"}]

\* touch(), its effect on the session object
touched(s) ==
    [s EXCEPT !.cookie.expires =
                  IF s.cookie.maxAge # None
                  THEN Some(DateOf(s.now + Val(s.cookie.maxAge) * 1000))
                  ELSE @,
              !.flags = @ \cup {"isTouched"}]

\* touch(), its store call: store.touch?.(this.id, this), made after the expiry
\* was recomputed
touchStore(st, s) ==
    IF options.storeTouch THEN StoreTouch(st, s.id, touched(s)) ELSE st
touchLog(s) ==
    IF options.storeTouch THEN <<[op |-> "touch", id |-> s.id]>> ELSE <<>>

\* Mutant of destroyed: cookie.expires is left as it was
destroyed_keepsExpires(s) ==
    [s EXCEPT !.flags = @ \cup {"isDestroyed"}]

\* destroy(), its effect on the session object
destroyed(s) ==
    [s EXCEPT !.flags = @ \cup {"isDestroyed"}, !.cookie.expires = Some(DateOf(1))]

----------------------------------------------------------------------------
(* sessionHandle *)

\* unsign != null && sessionCookie != null && !sessionCookie.signed
unsignAttempted ==
    options.unsign /\ reqCookie # None /\ "signed" \notin cookieFlags

\* Mutant of cookieAfterUnsign: a value that fails unsign is used as it came
cookieAfterUnsign_keepsRaw ==
    IF ~unsignAttempted THEN [value |-> reqCookie, flags |-> cookieFlags]
    ELSE IF unsign(Val(reqCookie)) # None
         THEN [value |-> unsign(Val(reqCookie)), flags |-> cookieFlags \cup {"signed"}]
         ELSE [value |-> reqCookie, flags |-> cookieFlags \cup {"signed"}]

\* The request's Cookie object after sessionCookie.unsign(unsign): unsigned, its
\* value is what the signature covers; when unsigning failed, reading it throws
cookieAfterUnsign ==
    IF ~unsignAttempted THEN [value |-> reqCookie, flags |-> cookieFlags]
    ELSE IF unsign(Val(reqCookie)) # None
         THEN [value |-> unsign(Val(reqCookie)), flags |-> cookieFlags \cup {"signed"}]
         ELSE [value |-> reqCookie, flags |-> cookieFlags \cup {"invalid"}]

\* try { sessionId = sessionCookie?.value ?? null } catch (err) {}
cookieSessionId ==
    IF "invalid" \in cookieAfterUnsign.flags THEN None ELSE cookieAfterUnsign.value

\* sessionId ? await store.get(sessionId) : null
foundRecord ==
    IF cookieSessionId = None THEN None ELSE StoreGet(store, Val(cookieSessionId))

\* Mutant of rehydrated: new Date() for new Date(expires), the text is ignored
rehydrated_dateNow(rec, id, now) ==
    [id |-> id, fields |-> rec.fields,
     cookie |-> [rec.cookie EXCEPT
                   !.expires = IF @ # None /\ Val(@).type = "string"
                               THEN Some(DateOf(now)) ELSE @],
     flags |-> {}, now |-> now]

\* Mutant of rehydrated: the session built from the record is marked new
rehydrated_asNew(rec, id, now) ==
    [id |-> id, fields |-> rec.fields,
     cookie |-> [rec.cookie EXCEPT
                   !.expires = IF @ # None /\ Val(@).type = "string"
                               THEN Some(NewDateFromString(Val(@))) ELSE @],
     flags |-> {"isNew"}, now |-> now]

\* Mutant of rehydrated: the session built from the record counts as touched
rehydrated_asTouched(rec, id, now) ==
    [id |-> id, fields |-> rec.fields,
     cookie |-> [rec.cookie EXCEPT
                   !.expires = IF @ # None /\ Val(@).type = "string"
                               THEN Some(NewDateFromString(Val(@))) ELSE @],
     flags |-> {"isTouched"}, now |-> now]

\* The record store.get returned, made a Session: a textual cookie.expires
\* becomes a Date, then decorateSession binds id and _now
rehydrated(rec, id, now) ==
    [id |-> id, fields |-> rec.fields,
     cookie |-> [rec.cookie EXCEPT
                   !.expires = IF @ # None /\ Val(@).type = "string"
                               THEN Some(NewDateFromString(Val(@))) ELSE @],
     flags |-> {}, now |-> now]

\* Mutant of autoTouchDue: > where the source has >=
autoTouchDue_strict(s) ==
    /\ options.touchAfter >= 0
    /\ s.cookie.expires # None
    /\ s.cookie.maxAge # None
    /\ LET lastTouchedTime == GetTime(Val(s.cookie.expires)) - Val(s.cookie.maxAge) * 1000
       IN  s.now - lastTouchedTime > options.touchAfter * 1000

\* Mutant of autoTouchDue: the age is counted from cookie.expires itself, maxAge
\* is not subtracted
autoTouchDue_fromExpires(s) ==
    /\ options.touchAfter >= 0
    /\ s.cookie.expires # None
    /\ s.cookie.maxAge # None
    /\ LET lastTouchedTime == GetTime(Val(s.cookie.expires))
       IN  s.now - lastTouchedTime >= options.touchAfter * 1000

\* touchAfter >= 0 && session.cookie.expires, and the last touch is old enough;
\* with maxAge undefined the subtraction is NaN and the comparison false
autoTouchDue(s) ==
    /\ options.touchAfter >= 0
    /\ s.cookie.expires # None
    /\ s.cookie.maxAge # None
    /\ LET lastTouchedTime == GetTime(Val(s.cookie.expires)) - Val(s.cookie.maxAge) * 1000
       IN  s.now - lastTouchedTime >= options.touchAfter * 1000

Init ==
    /\ options \in OptionsSet
    /\ \E r \in InitialRequests : store = r.store /\ reqCookie = r.cookie
    /\ clock = StartClock
    /\ genCount = 0
    /\ reqSession = 0
    /\ sessions = <<>>
    /\ hook = 0
    /\ hookRegs = 0
    /\ headersSent = FALSE
    /\ setCookie = <<>>
    /\ storeLog = <<>>
    /\ finalized = 0
    /\ ops = 0
    /\ did = {}
    /\ lastOp = [op |-> "none", s |-> 0]
    /\ outcome = "ok"
    /\ setArg = None
    /\ cookieFlags = {}
    /\ prev = None
    /\ failing = {}
    /\ inflight = <<>>
    /\ other = None

\* The handler made the call op on (or, for sessionHandle, got) session s
Called(op, s) ==
    /\ ops < MaxOps
    /\ ops' = ops + 1
    /\ did' = did \cup {op}
    /\ lastOp' = [op |-> op, s |-> s]

\* The store rejects calls of this kind
StoreRejects(op) == op \in failing

\* The store calls a step adds to the log
Logged(calls) == storeLog' = storeLog \o calls

\* The call returned (its promise resolved)
Returned == outcome' = "ok"

\* The call failed with the store's failure (its promise rejected)
Rejected == outcome' = "rejected"

\* Lines 55-56 of sessionHandle as they leave the request's Cookie object
CookieRead ==
    /\ reqCookie' = cookieAfterUnsign.value
    /\ cookieFlags' = cookieAfterUnsign.flags

\* Mutant of ResolveMemo: the early return is missing its store-free path, the
\* store is read and the late header action registered again
ResolveMemo_rereads ==
    /\ reqSession # 0
    /\ Called("resolve", reqSession)
    /\ Logged(IF cookieSessionId # None
               THEN <<[op |-> "get", id |-> Val(cookieSessionId)]>> ELSE <<>>)
    /\ hookRegs' = hookRegs + 1
    /\ Returned
    /\ UNCHANGED <<options, store, clock, genCount, reqCookie, reqSession,
                   sessions, hook, headersSent, setCookie, finalized,
                   setArg, cookieFlags, prev, failing, inflight, other>>

\* sessionHandle(req, res) on a request that carries a session: it is returned
ResolveMemo ==
    /\ reqSession # 0
    /\ Called("resolve", reqSession)
    /\ Returned
    /\ UNCHANGED <<options, store, clock, genCount, reqCookie, reqSession,
                   sessions, hook, hookRegs, headersSent, setCookie, storeLog,
                   finalized, setArg, cookieFlags, prev, failing, inflight, other>>

\* sessionHandle(req, res): the store holds a record under the cookie's id
ResolveStored ==
    /\ reqSession = 0
    /\ foundRecord # None
    /\ ~StoreRejects("get")
    /\ LET id == Val(cookieSessionId)
           s0 == rehydrated(Val(foundRecord), id, clock)
           s1 == IF autoTouchDue(s0) THEN touched(s0) ELSE s0
       IN  /\ (autoTouchDue(s0) /\ options.storeTouch) => ~StoreRejects("touch")
           /\ sessions' = Append(sessions, s1)
           /\ store' = IF autoTouchDue(s0) THEN touchStore(store, s0) ELSE store
           /\ Logged(<<[op |-> "get", id |-> id]>>
                        \o (IF autoTouchDue(s0) THEN touchLog(s0) ELSE <<>>))
    /\ reqSession' = Len(sessions) + 1
    /\ hook' = Len(sessions) + 1
    /\ hookRegs' = hookRegs + 1
    /\ Called("resolve", Len(sessions) + 1)
    /\ CookieRead
    /\ Returned
    /\ UNCHANGED <<options, clock, genCount, headersSent, setCookie,
                   finalized, setArg, prev, failing, inflight, other>>

\* Mutant of ResolveNew: a cookie value the store does not know becomes the id
\* of the new session
ResolveNew_adoptsCookieId ==
    /\ reqSession = 0
    /\ foundRecord = None
    /\ cookieSessionId # None => ~StoreRejects("get")
    /\ genCount < Len(GenIdPool)
    /\ genCount' = genCount + 1
    /\ sessions' = Append(sessions,
                           NewSession(IF cookieSessionId # None
                                      THEN Val(cookieSessionId)
                                      ELSE genId(genCount + 1),
                                      options.cookie, clock))
    /\ Logged(IF cookieSessionId # None
               THEN <<[op |-> "get", id |-> Val(cookieSessionId)]>> ELSE <<>>)
    /\ reqSession' = Len(sessions) + 1
    /\ hook' = Len(sessions) + 1
    /\ hookRegs' = hookRegs + 1
    /\ Called("resolve", Len(sessions) + 1)
    /\ CookieRead
    /\ Returned
    /\ UNCHANGED <<options, store, clock, headersSent, setCookie,
                   finalized, setArg, prev, failing, inflight, other>>

\* sessionHandle(req, res): no cookie, or no record under its id
ResolveNew ==
    /\ reqSession = 0
    /\ foundRecord = None
    /\ cookieSessionId # None => ~StoreRejects("get")
    /\ genCount < Len(GenIdPool)
    /\ genCount' = genCount + 1
    /\ sessions' = Append(sessions,
                           NewSession(genId(genCount + 1), options.cookie, clock))
    /\ Logged(IF cookieSessionId # None
               THEN <<[op |-> "get", id |-> Val(cookieSessionId)]>> ELSE <<>>)
    /\ reqSession' = Len(sessions) + 1
    /\ hook' = Len(sessions) + 1
    /\ hookRegs' = hookRegs + 1
    /\ Called("resolve", Len(sessions) + 1)
    /\ CookieRead
    /\ Returned
    /\ UNCHANGED <<options, store, clock, headersSent, setCookie,
                   finalized, setArg, prev, failing, inflight, other>>

sessionHandle == ResolveMemo \/ ResolveStored \/ ResolveNew

\* Mutant of ResolveTouchRejected: the session is attached to the request and
\* the late header action registered before the automatic touch is awaited
ResolveTouchRejected_attached ==
    /\ reqSession = 0
    /\ foundRecord # None
    /\ ~StoreRejects("get")
    /\ options.storeTouch /\ StoreRejects("touch")
    /\ autoTouchDue(rehydrated(Val(foundRecord), Val(cookieSessionId), clock))
    /\ LET id == Val(cookieSessionId)
           s0 == rehydrated(Val(foundRecord), id, clock)
       IN  /\ sessions' = Append(sessions, [touched(s0) EXCEPT !.flags = s0.flags])
           /\ Logged(<<[op |-> "get", id |-> id]>> \o touchLog(s0))
    /\ reqSession' = Len(sessions) + 1
    /\ hook' = Len(sessions) + 1
    /\ hookRegs' = hookRegs + 1
    /\ Called("resolve", 0)
    /\ CookieRead
    /\ Rejected
    /\ UNCHANGED <<options, store, clock, genCount, headersSent, setCookie,
                   finalized, setArg, prev, failing, inflight, other>>

\* sessionHandle(req, res) when store.get rejects: the await throws, nothing
\* was attached or registered yet
ResolveGetRejected ==
    /\ reqSession = 0
    /\ cookieSessionId # None
    /\ StoreRejects("get")
    /\ Called("resolve", 0)
    /\ CookieRead
    /\ Logged(<<[op |-> "get", id |-> Val(cookieSessionId)]>>)
    /\ Rejected
    /\ UNCHANGED <<options, store, clock, genCount, reqSession, sessions, hook,
                   hookRegs, headersSent, setCookie, finalized, setArg, prev,
                   failing, inflight, other>>

\* sessionHandle(req, res) when store.touch rejects in the automatic touch: the
\* await throws before req.session is set and the late header action registered;
\* the session built from the record is dropped
ResolveTouchRejected ==
    /\ reqSession = 0
    /\ foundRecord # None
    /\ ~StoreRejects("get")
    /\ options.storeTouch /\ StoreRejects("touch")
    /\ autoTouchDue(rehydrated(Val(foundRecord), Val(cookieSessionId), clock))
    /\ Called("resolve", 0)
    /\ CookieRead
    /\ Logged(<<[op |-> "get", id |-> Val(cookieSessionId)]>>
                 \o touchLog(rehydrated(Val(foundRecord), Val(cookieSessionId), clock)))
    /\ Rejected
    /\ UNCHANGED <<options, store, clock, genCount, reqSession, sessions, hook,
                   hookRegs, headersSent, setCookie, finalized, setArg, prev,
                   failing, inflight, other>>

sessionHandleRejected == ResolveGetRejected \/ ResolveTouchRejected

----------------------------------------------------------------------------
(* The handler's calls on a session it holds *)

\* Mutant of Commit: the session stops being new once it is persisted
Commit_clearsIsNew(i) ==
    /\ Called("commit", i)
    /\ store' = StoreSet(store, sessions[i].id, sessions[i])
    /\ Logged(<<[op |-> "set", id |-> sessions[i].id]>>)
    /\ sessions' = [sessions EXCEPT ![i].flags = @ \ {"isNew"}]
    /\ setArg' = Some(sessions[i])
    /\ Returned
    /\ UNCHANGED <<options, clock, genCount, reqCookie, reqSession,
                   hook, hookRegs, headersSent, setCookie, finalized,
                   cookieFlags, prev, failing, inflight, other>>

\* Mutant of Destroy: req.session is not cleared
Destroy_staysAttached(i) ==
    /\ Called("destroy", i)
    /\ sessions' = [sessions EXCEPT ![i] = destroyed(@)]
    /\ store' = StoreDestroy(store, sessions[i].id)
    /\ Logged(<<[op |-> "destroy", id |-> sessions[i].id]>>)
    /\ Returned
    /\ UNCHANGED <<options, clock, genCount, reqCookie, reqSession, hook, hookRegs,
                   headersSent, setCookie, finalized, setArg, cookieFlags, prev, failing, inflight, other>>

\* Mutant of Commit: the store is given a copy stripped of the flags
Commit_passesData(i) ==
    /\ Called("commit", i)
    /\ store' = StoreSet(store, sessions[i].id, sessions[i])
    /\ Logged(<<[op |-> "set", id |-> sessions[i].id]>>)
    /\ setArg' = Some([sessions[i] EXCEPT !.flags = {}])
    /\ Returned
    /\ UNCHANGED <<options, clock, genCount, reqCookie, reqSession, sessions,
                   hook, hookRegs, headersSent, setCookie,
                   finalized, cookieFlags, prev, failing, inflight, other>>

\* Mutant of CommitRejected: the failure is swallowed, commit() returns
CommitRejected_swallowed(i) ==
    /\ StoreRejects("set")
    /\ Called("commit", i)
    /\ Logged(<<[op |-> "set", id |-> sessions[i].id]>>)
    /\ setArg' = Some(sessions[i])
    /\ Returned
    /\ UNCHANGED <<options, store, clock, genCount, reqCookie, reqSession, sessions,
                   hook, hookRegs, headersSent, setCookie,
                   finalized, cookieFlags, prev, failing, inflight, other>>

\* session.commit() when store.set rejects: the await throws
CommitRejected(i) ==
    /\ StoreRejects("set")
    /\ Called("commit", i)
    /\ Logged(<<[op |-> "set", id |-> sessions[i].id]>>)
    /\ setArg' = Some(sessions[i])
    /\ Rejected
    /\ UNCHANGED <<options, store, clock, genCount, reqCookie, reqSession, sessions,
                   hook, hookRegs, headersSent, setCookie,
                   finalized, cookieFlags, prev, failing, inflight, other>>

\* Mutant of Commit: the session is merged into the record the store holds,
\* fields the session lacks are kept
Commit_merges(i) ==
    /\ ~StoreRejects("set")
    /\ Called("commit", i)
    /\ store' = IF store[sessions[i].id] = None
                THEN StoreSet(store, sessions[i].id, sessions[i])
                ELSE StoreSet(store, sessions[i].id,
                              [sessions[i] EXCEPT
                                 !.fields = @ @@ Val(store[sessions[i].id]).fields])
    /\ Logged(<<[op |-> "set", id |-> sessions[i].id]>>)
    /\ setArg' = Some(sessions[i])
    /\ Returned
    /\ UNCHANGED <<options, clock, genCount, reqCookie, reqSession, sessions,
                   hook, hookRegs, headersSent, setCookie,
                   finalized, cookieFlags, prev, failing, inflight, other>>

\* session.commit(): store.set(this.id, this)
Commit(i) ==
    /\ ~StoreRejects("set")
    /\ Called("commit", i)
    /\ store' = StoreSet(store, sessions[i].id, sessions[i])
    /\ Logged(<<[op |-> "set", id |-> sessions[i].id]>>)
    /\ setArg' = Some(sessions[i])
    /\ Returned
    /\ UNCHANGED <<options, clock, genCount, reqCookie, reqSession, sessions,
                   hook, hookRegs, headersSent, setCookie,
                   finalized, cookieFlags, prev, failing, inflight, other>>

\* session.touch() when store.touch rejects: the expiry was already recomputed,
\* the await throws before the touched flag is set
TouchRejected(i) ==
    /\ options.storeTouch /\ StoreRejects("touch")
    /\ Called("touch", i)
    /\ sessions' = [sessions EXCEPT ![i] = [touched(@) EXCEPT !.flags = sessions[i].flags]]
    /\ Logged(touchLog(sessions[i]))
    /\ Rejected
    /\ UNCHANGED <<options, store, clock, genCount, reqCookie, reqSession, hook,
                   hookRegs, headersSent, setCookie,
                   finalized, setArg, cookieFlags, prev, failing, inflight, other>>

\* session.touch()
Touch(i) ==
    /\ options.storeTouch => ~StoreRejects("touch")
    /\ Called("touch", i)
    /\ sessions' = [sessions EXCEPT ![i] = touched(@)]
    /\ store' = touchStore(store, sessions[i])
    /\ Logged(touchLog(sessions[i]))
    /\ Returned
    /\ UNCHANGED <<options, clock, genCount, reqCookie, reqSession, hook,
                   hookRegs, headersSent, setCookie,
                   finalized, setArg, cookieFlags, prev, failing, inflight, other>>

\* Mutant of DestroyRejected: the session is detached from the request before
\* the store call is awaited
DestroyRejected_detached(i) ==
    /\ StoreRejects("destroy")
    /\ Called("destroy", i)
    /\ sessions' = [sessions EXCEPT ![i] = destroyed(@)]
    /\ Logged(<<[op |-> "destroy", id |-> sessions[i].id]>>)
    /\ reqSession' = 0
    /\ Rejected
    /\ UNCHANGED <<options, store, clock, genCount, reqCookie, hook,
                   hookRegs, headersSent, setCookie,
                   finalized, setArg, cookieFlags, prev, failing, inflight, other>>

\* session.destroy() when store.destroy rejects: the session is already marked
\* destroyed and expired, the await throws before req.session is cleared
DestroyRejected(i) ==
    /\ StoreRejects("destroy")
    /\ Called("destroy", i)
    /\ sessions' = [sessions EXCEPT ![i] = destroyed(@)]
    /\ Logged(<<[op |-> "destroy", id |-> sessions[i].id]>>)
    /\ Rejected
    /\ UNCHANGED <<options, store, clock, genCount, reqCookie, reqSession, hook,
                   hookRegs, headersSent, setCookie,
                   finalized, setArg, cookieFlags, prev, failing, inflight, other>>

\* session.destroy()
Destroy(i) ==
    /\ ~StoreRejects("destroy")
    /\ Called("destroy", i)
    /\ sessions' = [sessions EXCEPT ![i] = destroyed(@)]
    /\ store' = StoreDestroy(store, sessions[i].id)
    /\ Logged(<<[op |-> "destroy", id |-> sessions[i].id]>>)
    /\ reqSession' = 0
    /\ Returned
    /\ UNCHANGED <<options, clock, genCount, reqCookie, hook, hookRegs,
                   headersSent, setCookie,
                   finalized, setArg, cookieFlags, prev, failing, inflight, other>>

\* Mutant of SetField: an assignment is written through to the store
SetField_writesThrough(i, k, v) ==
    /\ Called("set", i)
    /\ sessions' = [sessions EXCEPT ![i].fields = (k :> v) @@ @]
    /\ store' = StoreSet(store, sessions[i].id, sessions'[i])
    /\ Logged(<<[op |-> "set", id |-> sessions[i].id]>>)
    /\ setArg' = Some(sessions'[i])
    /\ Returned
    /\ UNCHANGED <<options, clock, genCount, reqCookie, reqSession,
                   hook, hookRegs, headersSent, setCookie,
                   finalized, cookieFlags, prev, failing, inflight, other>>

\* session[k] = v
SetField(i, k, v) ==
    /\ Called("set", i)
    /\ sessions' = [sessions EXCEPT ![i].fields = (k :> v) @@ @]
    /\ Returned
    /\ UNCHANGED <<options, store, clock, genCount, reqCookie, reqSession,
                   hook, hookRegs, headersSent, setCookie, storeLog,
                   finalized, setArg, cookieFlags, prev, failing, inflight, other>>

\* delete session[k]
DeleteField(i, k) ==
    /\ k \in DOMAIN sessions[i].fields
    /\ Called("delete", i)
    /\ sessions' = [sessions EXCEPT
                      ![i].fields = [x \in DOMAIN @ \ {k} |-> @[x]]]
    /\ Returned
    /\ UNCHANGED <<options, store, clock, genCount, reqCookie, reqSession,
                   hook, hookRegs, headersSent, setCookie, storeLog,
                   finalized, setArg, cookieFlags, prev, failing, inflight, other>>

----------------------------------------------------------------------------
(* The late header action and the response *)

\* Mutants of shouldSetCookie: the touched flag is not looked at; a new session
\* counts whether or not it holds a field
shouldSetCookie_ignoresTouched(s) ==
    \/ "isNew" \in s.flags /\ Cardinality(ObjectKeys(s)) > 1
    \/ "isDestroyed" \in s.flags
shouldSetCookie_anyNew(s) ==
    \/ "isNew" \in s.flags
    \/ "isTouched" \in s.flags
    \/ "isDestroyed" \in s.flags

\* Mutant of shouldSetCookie: a new session is judged by the fields it had when
\* sessionHandle returned it (none), not by those it has when the action runs
shouldSetCookie_atResolve(s) ==
    \/ "isTouched" \in s.flags
    \/ "isDestroyed" \in s.flags

\* The condition under which the late header action appends the cookie
shouldSetCookie(s) ==
    \/ "isNew" \in s.flags /\ Cardinality(ObjectKeys(s)) > 1
    \/ "isTouched" \in s.flags
    \/ "isDestroyed" \in s.flags

\* res.cookie(name, id, {...}): the Set-Cookie header
cookieHeader(s) ==
    [name |-> name, value |-> s.id, path |-> s.cookie.path,
     httpOnly |-> s.cookie.httpOnly, expires |-> s.cookie.expires,
     domain |-> s.cookie.domain, sameSite |-> s.cookie.sameSite,
     secure |-> s.cookie.secure]

\* Mutant of appendSessionCookieHeader: res.headersSent is not checked
appendSessionCookieHeader_unguarded(sent, headers, s) ==
    Append(headers, cookieHeader(s))

\* appendSessionCookieHeader(res, name, session, cookieOpts)
appendSessionCookieHeader(sent, headers, s) ==
    IF sent THEN headers ELSE Append(headers, cookieHeader(s))

\* res.cookie(...) on a response whose headers are sent: the header can no
\* longer be set and the call throws
resCookieThrows(sent) == sent

\* Mutant of appendThrows: res.cookie is called whatever res.headersSent says
appendThrows_unguarded(sent) == resCookieThrows(sent)

\* Whether appendSessionCookieHeader throws: it returns before res.cookie when
\* the headers are sent
appendThrows(sent) == IF sent THEN FALSE ELSE resCookieThrows(sent)

\* The action registered under the lateHeaderAction symbol, run by the response
lateHeaderAction(sent, headers) ==
    IF hook = 0 \/ ~shouldSetCookie(sessions[hook]) THEN headers
    ELSE appendSessionCookieHeader(sent, headers, sessions[hook])

\* Whether that action throws
lateHeaderActionThrows(sent) ==
    IF hook = 0 THEN FALSE
    ELSE shouldSetCookie(sessions[hook]) /\ appendThrows(sent)

\* Mutant of Finalize: the session the late header action holds is saved when
\* the response is finalized
Finalize_savesSession ==
    /\ Called("finalize", 0)
    /\ finalized' = finalized + 1
    /\ setCookie' = lateHeaderAction(headersSent, setCookie)
    /\ headersSent' = TRUE
    /\ outcome' = IF lateHeaderActionThrows(headersSent) THEN "threw" ELSE "ok"
    /\ IF hook # 0
       THEN /\ store' = StoreSet(store, sessions[hook].id, sessions[hook])
            /\ Logged(<<[op |-> "set", id |-> sessions[hook].id]>>)
            /\ setArg' = Some(sessions[hook])
       ELSE UNCHANGED <<store, storeLog, setArg>>
    /\ UNCHANGED <<options, clock, genCount, reqCookie, reqSession,
                   sessions, hook, hookRegs, cookieFlags, prev, failing, inflight, other>>

\* res.writeHead() / res.end(): the response runs its late header actions and
\* the headers are sent; a later res.end() finds them sent
Finalize ==
    /\ Called("finalize", 0)
    /\ finalized' = finalized + 1
    /\ setCookie' = lateHeaderAction(headersSent, setCookie)
    /\ headersSent' = TRUE
    /\ outcome' = IF lateHeaderActionThrows(headersSent) THEN "threw" ELSE "ok"
    /\ UNCHANGED <<options, store, clock, genCount, reqCookie, reqSession,
                   sessions, hook, hookRegs, storeLog, setArg, cookieFlags, prev, failing, inflight, other>>

\* Time passes
Tick ==
    /\ clock < StartClock + MaxTicks * TickMs
    /\ clock' = clock + TickMs
    /\ UNCHANGED <<options, store, genCount, reqCookie, reqSession, sessions,
                   hook, hookRegs, headersSent, setCookie, storeLog, finalized, ops,
                   did, lastOp, outcome, setArg, cookieFlags, prev, failing, inflight, other>>

Next ==
    \/ sessionHandle
    \/ \E i \in 1..Len(sessions) : Commit(i)
    \/ \E i \in 1..Len(sessions) : Touch(i)
    \/ \E i \in 1..Len(sessions) : Destroy(i)
    \/ \E i \in 1..Len(sessions), k \in Keys, v \in Values : SetField(i, k, v)
    \/ \E i \in 1..Len(sessions), k \in Keys : DeleteField(i, k)
    \/ Finalize
    \/ Tick

Spec == Init /\ [][Next]_vars

----------------------------------------------------------------------------
(* A request and the request that follows it: the store, the clock and the *)
(* id generator live on, the request and its response are fresh            *)

\* What the request leaves behind when its response is complete
RequestSummary ==
    [sessions |-> sessions, setCookie |-> setCookie, did |-> did,
     setArg |-> setArg, storeLog |-> storeLog]

\* The session cookie the client may send next: none, the one it sent before,
\* a value the server never issued, or the one the response just set
NextCookies ==
    {None, reqCookie, Some("foo")}
    \cup {Some(setCookie[n].value) : n \in 1..Len(setCookie)}

\* The response is complete and the client's next request arrives
NextRequest ==
    /\ prev = None
    /\ headersSent
    /\ prev' = Some(RequestSummary)
    /\ \E c \in NextCookies : reqCookie' = c
    /\ cookieFlags' = {}
    /\ reqSession' = 0
    /\ sessions' = <<>>
    /\ hook' = 0
    /\ hookRegs' = 0
    /\ headersSent' = FALSE
    /\ setCookie' = <<>>
    /\ storeLog' = <<>>
    /\ finalized' = 0
    /\ ops' = 0
    /\ did' = {}
    /\ lastOp' = [op |-> "none", s |-> 0]
    /\ outcome' = "ok"
    /\ setArg' = None
    /\ UNCHANGED <<options, store, clock, genCount, failing, inflight, other>>

\* The first request of a client that holds no session cookie yet
InitRequests == Init /\ reqCookie = None

\* The first request in full; of the next one, the resolution of its session
NextRequests ==
    \/ prev = None /\ Next
    \/ NextRequest
    \/ prev # None /\ sessionHandle
    \/ prev # None /\ Tick

SpecRequests == InitRequests /\ [][NextRequests]_vars

----------------------------------------------------------------------------
(* A store that is unavailable for some of its operations: their calls     *)
(* reject                                                                  *)

FailingOptionsSet ==
    [touchAfter : {-1, 0},
     cookie : {[attrs |-> DefaultCookieOpts, maxAge |-> m] :
                  m \in {None, Some(MaxMaxAge)}},
     storeTouch : BOOLEAN,
     unsign : {FALSE}]

FailingSets == {{"get"}, {"set"}, {"touch"}, {"destroy"}, {"set", "touch", "destroy"}}

InitFailing ==
    /\ options \in FailingOptionsSet
    /\ \E r \in InitialRequests : store = r.store /\ reqCookie = r.cookie
    /\ failing \in FailingSets
    /\ inflight = <<>>
    /\ other = None
    /\ clock = StartClock
    /\ genCount = 0
    /\ reqSession = 0
    /\ sessions = <<>>
    /\ hook = 0
    /\ hookRegs = 0
    /\ headersSent = FALSE
    /\ setCookie = <<>>
    /\ storeLog = <<>>
    /\ finalized = 0
    /\ ops = 0
    /\ did = {}
    /\ lastOp = [op |-> "none", s |-> 0]
    /\ outcome = "ok"
    /\ setArg = None
    /\ cookieFlags = {}
    /\ prev = None

NextFailing ==
    \/ Next
    \/ sessionHandleRejected
    \/ \E i \in 1..Len(sessions) : CommitRejected(i)
    \/ \E i \in 1..Len(sessions) : TouchRejected(i)
    \/ \E i \in 1..Len(sessions) : DestroyRejected(i)

SpecFailing == InitFailing /\ [][NextFailing]_vars

----------------------------------------------------------------------------
(* Signed session cookies: options.cookie.unsign may be configured, and the *)
(* client sends a bare id, a validly signed id or a forged value           *)

SignedOptionsSet ==
    [touchAfter : {-1, 0},
     cookie : {[attrs |-> DefaultCookieOpts, maxAge |-> Some(MaxMaxAge)]},
     storeTouch : {TRUE},
     unsign : BOOLEAN]

\* The Cookie object of the request: as parsed, or already unsigned by the
\* App's own cookieUnsigner, with or without success
SignedRequestCookies ==
    {[value |-> None, flags |-> {}],
     [value |-> Some("foo"), flags |-> {}],
     [value |-> Some("s:foo"), flags |-> {}],
     [value |-> Some("s:bad"), flags |-> {}],
     [value |-> Some("foo"), flags |-> {"signed"}],
     [value |-> Some("s:bad"), flags |-> {"signed", "invalid"}]}

InitSigned ==
    /\ options \in SignedOptionsSet
    /\ \E c \in SignedRequestCookies : reqCookie = c.value /\ cookieFlags = c.flags
    /\ store \in {StoreHolding(None), StoreHolding(Some(StoredRecord(Some(MaxMaxAge))))}
    /\ clock = StartClock
    /\ genCount = 0
    /\ reqSession = 0
    /\ sessions = <<>>
    /\ hook = 0
    /\ hookRegs = 0
    /\ headersSent = FALSE
    /\ setCookie = <<>>
    /\ storeLog = <<>>
    /\ finalized = 0
    /\ ops = 0
    /\ did = {}
    /\ lastOp = [op |-> "none", s |-> 0]
    /\ outcome = "ok"
    /\ setArg = None
    /\ prev = None
    /\ failing = {}
    /\ inflight = <<>>
    /\ other = None

SpecSigned == InitSigned /\ [][Next]_vars

----------------------------------------------------------------------------
----------------------------------------------------------------------------
(* sessionHandle calls that overlap within one request: a call suspends at *)
(* await store.get, and another call of the same request may start before  *)
(* the store has answered                                                  *)

MaxInflight == 2     \* sessionHandle calls of one request awaiting store.get

OverlapOptionsSet ==
    [touchAfter : {-1, 0},
     cookie : {[attrs |-> DefaultCookieOpts, maxAge |-> Some(MaxMaxAge)]},
     storeTouch : {TRUE},
     unsign : {FALSE}]

InitOverlap ==
    /\ options \in OverlapOptionsSet
    /\ reqCookie = Some("foo")
    /\ store \in {StoreHolding(None), StoreHolding(Some(StoredRecord(Some(MaxMaxAge))))}
    /\ clock = StartClock
    /\ genCount = 0
    /\ reqSession = 0
    /\ sessions = <<>>
    /\ hook = 0
    /\ hookRegs = 0
    /\ headersSent = FALSE
    /\ setCookie = <<>>
    /\ storeLog = <<>>
    /\ finalized = 0
    /\ ops = 0
    /\ did = {}
    /\ lastOp = [op |-> "none", s |-> 0]
    /\ outcome = "ok"
    /\ setArg = None
    /\ cookieFlags = {}
    /\ prev = None
    /\ failing = {}
    /\ inflight = <<>>
    /\ other = None

\* The sequence without its k-th element
RemoveAt(seq, k) == SubSeq(seq, 1, k - 1) \o SubSeq(seq, k + 1, Len(seq))

\* sessionHandle(req, res) up to await store.get(sessionId): req.session is not
\* set, _now is captured, the cookie read, store.get called
ResolveBegin ==
    /\ reqSession = 0
    /\ cookieSessionId # None
    /\ ~StoreRejects("get")
    /\ Len(inflight) < MaxInflight
    /\ ops + Len(inflight) < MaxOps
    /\ inflight' = Append(inflight, [now |-> clock, id |-> Val(cookieSessionId),
                                     rec |-> foundRecord])
    /\ Logged(<<[op |-> "get", id |-> Val(cookieSessionId)]>>)
    /\ CookieRead
    /\ UNCHANGED <<options, store, clock, genCount, reqSession, sessions, hook,
                   hookRegs, headersSent, setCookie, finalized, ops, did, lastOp,
                   outcome, setArg, prev, failing, other>>

\* sessionHandle(req, res) from the answer of store.get on, a record was found:
\* the session is built, touched if due, attached to the request whatever
\* req.session holds by now, and the late header action registered
ResolveCompleteStored(k) ==
    /\ inflight[k].rec # None
    /\ LET p == inflight[k]
           s0 == rehydrated(Val(p.rec), p.id, p.now)
           s1 == IF autoTouchDue(s0) THEN touched(s0) ELSE s0
       IN  /\ (autoTouchDue(s0) /\ options.storeTouch) => ~StoreRejects("touch")
           /\ sessions' = Append(sessions, s1)
           /\ store' = IF autoTouchDue(s0) THEN touchStore(store, s0) ELSE store
           /\ Logged(IF autoTouchDue(s0) THEN touchLog(s0) ELSE <<>>)
    /\ inflight' = RemoveAt(inflight, k)
    /\ reqSession' = Len(sessions) + 1
    /\ hook' = Len(sessions) + 1
    /\ hookRegs' = hookRegs + 1
    /\ Called("resolve", Len(sessions) + 1)
    /\ Returned
    /\ UNCHANGED <<options, clock, genCount, reqCookie, headersSent, setCookie,
                   finalized, setArg, cookieFlags, prev, failing, other>>

\* The same when store.get answered with nothing: a new session
ResolveCompleteNew(k) ==
    /\ inflight[k].rec = None
    /\ genCount < Len(GenIdPool)
    /\ genCount' = genCount + 1
    /\ sessions' = Append(sessions,
                           NewSession(genId(genCount + 1), options.cookie,
                                      inflight[k].now))
    /\ inflight' = RemoveAt(inflight, k)
    /\ reqSession' = Len(sessions) + 1
    /\ hook' = Len(sessions) + 1
    /\ hookRegs' = hookRegs + 1
    /\ Called("resolve", Len(sessions) + 1)
    /\ Returned
    /\ UNCHANGED <<options, store, clock, reqCookie, headersSent, setCookie,
                   storeLog, finalized, setArg, cookieFlags, prev, failing, other>>

NextOverlap ==
    \/ ResolveBegin
    \/ \E k \in 1..Len(inflight) : ResolveCompleteStored(k)
    \/ \E k \in 1..Len(inflight) : ResolveCompleteNew(k)
    \/ ResolveMemo
    \/ \E i \in 1..Len(sessions), k \in Keys, v \in Values : SetField(i, k, v)
    \/ Finalize
    \/ Tick

SpecOverlap == InitOverlap /\ [][NextOverlap]_vars

----------------------------------------------------------------------------

(* Two requests handled at the same time. Their handlers take turns at the *)
(* awaits; they share the middleware's options and store, each has its own *)
(* request, response and sessions                                          *)

\* What belongs to the request being handled
RequestState ==
    [reqCookie |-> reqCookie, reqSession |-> reqSession, sessions |-> sessions,
     hook |-> hook, hookRegs |-> hookRegs, headersSent |-> headersSent,
     setCookie |-> setCookie, storeLog |-> storeLog, finalized |-> finalized,
     ops |-> ops, did |-> did, lastOp |-> lastOp, outcome |-> outcome,
     setArg |-> setArg, cookieFlags |-> cookieFlags, inflight |-> inflight]

\* A request that arrived with the session cookie c and was not handled yet
ArrivedRequest(c) ==
    [reqCookie |-> c, reqSession |-> 0, sessions |-> <<>>,
     hook |-> 0, hookRegs |-> 0, headersSent |-> FALSE,
     setCookie |-> <<>>, storeLog |-> <<>>, finalized |-> 0,
     ops |-> 0, did |-> {}, lastOp |-> [op |-> "none", s |-> 0], outcome |-> "ok",
     setArg |-> None, cookieFlags |-> {}, inflight |-> <<>>]

ConcurrentOptionsSet ==
    [touchAfter : {-1, 0},
     cookie : {[attrs |-> DefaultCookieOpts, maxAge |-> Some(MaxMaxAge)]},
     storeTouch : {TRUE},
     unsign : {FALSE}]

\* Both requests carry the id of the same stored session
InitConcurrent ==
    /\ options \in ConcurrentOptionsSet
    /\ store = StoreHolding(Some(StoredRecord(Some(MaxMaxAge))))
    /\ reqCookie = Some("foo")
    /\ other = Some(ArrivedRequest(Some("foo")))
    /\ clock = StartClock
    /\ genCount = 0
    /\ reqSession = 0
    /\ sessions = <<>>
    /\ hook = 0
    /\ hookRegs = 0
    /\ headersSent = FALSE
    /\ setCookie = <<>>
    /\ storeLog = <<>>
    /\ finalized = 0
    /\ ops = 0
    /\ did = {}
    /\ lastOp = [op |-> "none", s |-> 0]
    /\ outcome = "ok"
    /\ setArg = None
    /\ cookieFlags = {}
    /\ prev = None
    /\ failing = {}
    /\ inflight = <<>>

\* The handler of this request is suspended at an await and the handler of the
\* other request runs
Switch ==
    /\ other # None
    /\ other' = Some(RequestState)
    /\ reqCookie' = Val(other).reqCookie
    /\ reqSession' = Val(other).reqSession
    /\ sessions' = Val(other).sessions
    /\ hook' = Val(other).hook
    /\ hookRegs' = Val(other).hookRegs
    /\ headersSent' = Val(other).headersSent
    /\ setCookie' = Val(other).setCookie
    /\ storeLog' = Val(other).storeLog
    /\ finalized' = Val(other).finalized
    /\ ops' = Val(other).ops
    /\ did' = Val(other).did
    /\ lastOp' = Val(other).lastOp
    /\ outcome' = Val(other).outcome
    /\ setArg' = Val(other).setArg
    /\ cookieFlags' = Val(other).cookieFlags
    /\ inflight' = Val(other).inflight
    /\ UNCHANGED <<options, store, clock, genCount, prev, failing>>

NextConcurrent ==
    \/ ResolveMemo
    \/ ResolveStored
    \/ \E i \in 1..Len(sessions) : Commit(i)
    \/ \E i \in 1..Len(sessions), k \in Keys, v \in Values : SetField(i, k, v)
    \/ \E i \in 1..Len(sessions), k \in Keys : DeleteField(i, k)
    \/ Switch
    \/ Tick

SpecConcurrent == InitConcurrent /\ [][NextConcurrent]_vars

----------------------------------------------------------------------------

(* A request that creates and saves a session, and the request that gets   *)
(* it back from the store and works on it                                  *)

RehydrateOptionsSet ==
    [touchAfter : {-1, 0},
     cookie : {[attrs |-> DefaultCookieOpts, maxAge |-> m] :
                  m \in {None, Some(MaxMaxAge)}},
     storeTouch : {TRUE},
     unsign : {FALSE}]

InitRehydrate ==
    /\ options \in RehydrateOptionsSet
    /\ store = StoreHolding(None)
    /\ reqCookie = None
    /\ clock = StartClock
    /\ genCount = 0
    /\ reqSession = 0
    /\ sessions = <<>>
    /\ hook = 0
    /\ hookRegs = 0
    /\ headersSent = FALSE
    /\ setCookie = <<>>
    /\ storeLog = <<>>
    /\ finalized = 0
    /\ ops = 0
    /\ did = {}
    /\ lastOp = [op |-> "none", s |-> 0]
    /\ outcome = "ok"
    /\ setArg = None
    /\ cookieFlags = {}
    /\ prev = None
    /\ failing = {}
    /\ inflight = <<>>
    /\ other = None

\* The first handler resolves, sets fields, commits and ends the response; the
\* second does the same, may remove fields, and time may pass
NextRehydrate ==
    \/ sessionHandle
    \/ \E i \in 1..Len(sessions) : Commit(i)
    \/ \E i \in 1..Len(sessions), k \in Keys, v \in Values : SetField(i, k, v)
    \/ Finalize
    \/ NextRequest
    \/ prev # None /\ \E i \in 1..Len(sessions), k \in Keys : DeleteField(i, k)
    \/ prev # None /\ Tick

SpecRehydrate == InitRehydrate /\ [][NextRehydrate]_vars

(* Vocabulary of the properties *)

\* This step is a call of the given kind by the handler
StepIs(op) == ops' = ops + 1 /\ lastOp'.op = op

\* This step runs the late header action while the headers are not yet sent
FlushStep == StepIs("finalize") /\ ~headersSent

IsNew(s) == "isNew" \in s.flags
IsTouched(s) == "isTouched" \in s.flags
IsDestroyed(s) == "isDestroyed" \in s.flags
Populated(s) == DOMAIN s.fields # {}

\* How many store calls of one kind the log holds
NumCalls(log, op) == Cardinality({n \in 1..Len(log) : log[n].op = op})

\* The Set-Cookie header h is the session cookie of s as s is now
HeaderOf(h, s) ==
    /\ h.name = "sid" /\ h.value = s.id
    /\ h.path = s.cookie.path /\ h.httpOnly = s.cookie.httpOnly
    /\ h.domain = s.cookie.domain /\ h.sameSite = s.cookie.sameSite
    /\ h.secure = s.cookie.secure /\ h.expires = s.cookie.expires

----------------------------------------------------------------------------
(* C1: when the late header action runs with the headers not yet sent, it    *)
(* appends a Set-Cookie header for the session if and only if the session  *)
(* is destroyed, or was touched, or is new with at least one application   *)
(* field besides cookie; otherwise it appends nothing.                     *)
C1_EmitIffDecision ==
    [][FlushStep =>
         IF hook # 0 /\ (\/ IsDestroyed(sessions[hook])
                         \/ IsTouched(sessions[hook])
                         \/ IsNew(sessions[hook]) /\ Populated(sessions[hook]))
         THEN /\ Len(setCookie') = Len(setCookie) + 1
              /\ HeaderOf(setCookie'[Len(setCookie')], sessions[hook])
              /\ SubSeq(setCookie', 1, Len(setCookie)) = setCookie
         ELSE setCookie' = setCookie]_vars

\* A rehydrated session that was touched had its cookie appended by the flush
C1_Witness ==
    /\ lastOp.op = "finalize" /\ finalized = 1 /\ hook # 0
    /\ ~IsNew(sessions[hook]) /\ IsTouched(sessions[hook])
    /\ ~IsDestroyed(sessions[hook])
    /\ Len(setCookie) = 1

(* C2: a new session with no application field at the time the headers are *)
(* flushed, neither touched nor destroyed, leaves the response without any *)
(* Set-Cookie header, whether or not commit() was called.                  *)
C2_NoCookieForUnpopulatedNew ==
    [][(/\ FlushStep
        /\ \E i \in 1..Len(sessions) :
              /\ IsNew(sessions[i]) /\ ~Populated(sessions[i])
              /\ ~IsTouched(sessions[i]) /\ ~IsDestroyed(sessions[i]))
       => setCookie' = <<>>]_vars

\* A new, committed, unpopulated session went through the flush: no header
C2_Witness ==
    /\ headersSent /\ lastOp.op = "finalize" /\ Len(sessions) = 1
    /\ IsNew(sessions[1]) /\ ~Populated(sessions[1])
    /\ ~IsTouched(sessions[1]) /\ ~IsDestroyed(sessions[1])
    /\ NumCalls(storeLog, "set") = 1
    /\ setCookie = <<>>

\* The cookie attributes the configuration gives a session created at time now
ConfiguredPath ==
    IF options.cookie.attrs.path = None THEN "/" ELSE Val(options.cookie.attrs.path)
ConfiguredHttpOnly ==
    IF options.cookie.attrs.httpOnly = None THEN TRUE
    ELSE Val(options.cookie.attrs.httpOnly)
ConfiguredSecure ==
    IF options.cookie.attrs.secure = None THEN FALSE
    ELSE Val(options.cookie.attrs.secure)
ConfiguredExpires(now) ==
    IF options.cookie.maxAge \in {None, Some(0)} THEN None
    ELSE Some(DateOf(now + Val(options.cookie.maxAge) * 1000))

(* C3: a new session on which an application field is set when the         *)
(* response is finalized gets exactly one Set-Cookie header: its value is  *)
(* the id genId produced for the session, its attributes are those the     *)
(* configuration gives the session's cookie.                               *)
C3_OneCookieForPopulatedNew ==
    [][(/\ FlushStep
        /\ reqSession # 0
        /\ IsNew(sessions[reqSession]) /\ Populated(sessions[reqSession]))
       => LET s == sessions[reqSession]
          IN  /\ Len(setCookie') = 1
              /\ setCookie'[1].name = "sid"
              /\ setCookie'[1].value = s.id
              /\ s.id = genId(genCount)
              /\ s.id \notin {sessions[j].id : j \in 1..Len(sessions) \ {reqSession}}
              /\ reqCookie # Some(s.id)
              /\ setCookie'[1].path = ConfiguredPath
              /\ setCookie'[1].httpOnly = ConfiguredHttpOnly
              /\ setCookie'[1].domain = options.cookie.attrs.domain
              /\ setCookie'[1].sameSite = options.cookie.attrs.sameSite
              /\ setCookie'[1].secure = ConfiguredSecure
              /\ setCookie'[1].expires = ConfiguredExpires(s.now)]_vars

\* A populated new session, configured with custom attributes and a maxAge, was
\* flushed some time after it was created
C3_Witness ==
    /\ headersSent /\ lastOp.op = "finalize" /\ Len(setCookie) = 1
    /\ reqSession # 0
    /\ IsNew(sessions[reqSession]) /\ Populated(sessions[reqSession])
    /\ options.cookie.attrs = CustomCookieOpts
    /\ setCookie[1].value = "g1"
    /\ setCookie[1].expires # None
    /\ clock > sessions[reqSession].now

(* C4: whatever the handler does with one request/response pair (resolve,  *)
(* field changes, touch, commit, destroy, resolve again, any number of     *)
(* writeHead/end calls), at most one session Set-Cookie header is written. *)
C4_AtMostOneSetCookie == Len(setCookie) <= 1

\* The response of a populated new session was finalized twice: one header
C4_Witness ==
    /\ finalized >= 2 /\ Len(sessions) = 1
    /\ IsNew(sessions[1]) /\ Populated(sessions[1])
    /\ Len(setCookie) = 1

(* C5: sessionHandle on a request that already carries a session returns   *)
(* that same Session, makes no store call and registers no late header     *)
(* action; so while no session of the request was destroyed, the store is  *)
(* read at most once.                                                      *)
C5_ResolveMemoized ==
    [][/\ (StepIs("resolve") /\ reqSession # 0) =>
            /\ lastOp'.s = reqSession
            /\ reqSession' = reqSession
            /\ sessions' = sessions
            /\ storeLog' = storeLog /\ store' = store
            /\ hook' = hook /\ hookRegs' = hookRegs
       /\ (\A i \in 1..Len(sessions') : ~IsDestroyed(sessions'[i])) =>
            /\ NumCalls(storeLog', "get") <= 1
            /\ hookRegs' <= 1]_vars

\* sessionHandle was called a second time and returned the session of the first
C5_Witness ==
    /\ lastOp = [op |-> "resolve", s |-> 1] /\ ops >= 2 /\ reqSession = 1
    /\ NumCalls(storeLog, "get") = 1 /\ hookRegs = 1
    /\ Len(sessions) = 1

\* The handler has made calls of these kinds only
OnlyDid(kinds) == did \subseteq kinds

\* The instant a Date, or the text of one, denotes
InstantOf(d) == IF d.type = "Date" THEN d.ms ELSE d.iso

(* C6, as stated: destroying a rehydrated session (its fields changed or   *)
(* not) has Store.destroy called with its id, Store.set and Store.touch    *)
(* never called during the request, and exactly one Set-Cookie header with *)
(* an Expires already in the past.                                         *)
C6_Original ==
    [][(/\ FlushStep
        /\ OnlyDid({"resolve", "set", "delete", "destroy"})
        /\ Len(sessions) = 1
        /\ ~IsNew(sessions[1]) /\ IsDestroyed(sessions[1]))
       => /\ \E n \in 1..Len(storeLog) :
                storeLog[n] = [op |-> "destroy", id |-> sessions[1].id]
          /\ NumCalls(storeLog, "set") = 0
          /\ NumCalls(storeLog, "touch") = 0
          /\ Len(setCookie') = 1
          /\ setCookie'[1].value = sessions[1].id
          /\ setCookie'[1].expires # None
          /\ InstantOf(Val(setCookie'[1].expires)) < clock]_vars

(* C6, amended: as above, but Store.touch is not called by destroy(): it is *)
(* called during the request only by the automatic touch of resolve, which *)
(* needs touchAfter >= 0 and a store that implements touch.                *)
C6_DestroyClearsCookie ==
    [][/\ (/\ FlushStep
           /\ OnlyDid({"resolve", "set", "delete", "destroy"})
           /\ Len(sessions) = 1
           /\ ~IsNew(sessions[1]) /\ IsDestroyed(sessions[1]))
          => /\ \E n \in 1..Len(storeLog) :
                   storeLog[n] = [op |-> "destroy", id |-> sessions[1].id]
             /\ NumCalls(storeLog, "set") = 0
             /\ NumCalls(storeLog, "touch") =
                   IF IsTouched(sessions[1]) /\ options.storeTouch THEN 1 ELSE 0
             /\ IsTouched(sessions[1]) => options.touchAfter >= 0
             /\ Len(setCookie') = 1
             /\ setCookie'[1].value = sessions[1].id
             /\ setCookie'[1].expires # None
             /\ InstantOf(Val(setCookie'[1].expires)) < clock
       /\ StepIs("destroy")
          => storeLog' = Append(storeLog,
                                [op |-> "destroy", id |-> sessions[lastOp'.s].id])]_vars

\* A rehydrated session had a field changed, was destroyed, and the response
\* was finalized: one header, expired
C6_Witness ==
    /\ did = {"resolve", "set", "destroy", "finalize"} /\ finalized = 1
    /\ Len(sessions) = 1 /\ sessions[1].id = "foo"
    /\ IsDestroyed(sessions[1]) /\ sessions[1].fields = ("foo" :> "quz")
    /\ storeLog = <<[op |-> "get", id |-> "foo"], [op |-> "destroy", id |-> "foo"]>>
    /\ Len(setCookie) = 1 /\ setCookie[1].expires = Some(DateOf(1))

C8_AutoTouchIff ==
    [][(/\ StepIs("resolve")
        /\ reqSession = 0
        /\ reqCookie # None
        /\ store[Val(reqCookie)] # None)
       => LET rec == Val(store[Val(reqCookie)])
              s == sessions'[Len(sessions')]
              due == /\ options.touchAfter >= 0
                     /\ rec.cookie.expires # None
                     /\ rec.cookie.maxAge # None
                     /\ clock - (InstantOf(Val(rec.cookie.expires))
                                   - Val(rec.cookie.maxAge) * 1000)
                           >= options.touchAfter * 1000
          IN  /\ Len(sessions') = Len(sessions) + 1
              /\ s.id = Val(reqCookie)
              /\ IsTouched(s) <=> due
              /\ NumCalls(storeLog', "touch") - NumCalls(storeLog, "touch")
                    = IF due /\ options.storeTouch THEN 1 ELSE 0
              /\ due => s.cookie.expires
                           = Some(DateOf(clock + Val(rec.cookie.maxAge) * 1000))
              /\ ~due => /\ s.cookie.maxAge = rec.cookie.maxAge
                         /\ (rec.cookie.expires = None => s.cookie.expires = None)
                         /\ (rec.cookie.expires # None =>
                               s.cookie.expires
                                  = Some(DateOf(InstantOf(Val(rec.cookie.expires)))))]_vars

\* With touchAfter = 1 a session last touched exactly 1000 ms ago was resolved
\* and touched, the store's touch called
C8_Witness ==
    /\ lastOp = [op |-> "resolve", s |-> 1] /\ ops = 1
    /\ options.touchAfter = 1
    /\ sessions[1].id = "foo" /\ IsTouched(sessions[1])
    /\ sessions[1].now - StartClock = 1000
    /\ storeLog = <<[op |-> "get", id |-> "foo"], [op |-> "touch", id |-> "foo"]>>

(* C9: touch() sets the touched flag and, when cookie.maxAge is set, sets   *)
(* cookie.expires to the now captured at resolution + maxAge*1000, whether *)
(* or not the store implements touch; it calls Store.touch(id, session)    *)
(* when the store implements it; the cookie of a touched session is        *)
(* emitted at the flush; touching again leaves cookie.expires the same.    *)
C9_Touch ==
    [][/\ StepIs("touch")
          => LET i == lastOp'.s
                 s == sessions[i]
                 t == sessions'[i]
             IN  /\ IsTouched(t)
                 /\ t.flags = s.flags \cup {"isTouched"}
                 /\ t.now = s.now /\ t.id = s.id /\ t.fields = s.fields
                 /\ s.cookie.maxAge # None =>
                       t.cookie.expires
                          = Some(DateOf(s.now + Val(s.cookie.maxAge) * 1000))
                 /\ s.cookie.maxAge = None => t.cookie.expires = s.cookie.expires
                 /\ (IsTouched(s) /\ ~IsDestroyed(s)) =>
                       t.cookie.expires = s.cookie.expires
                 /\ storeLog' = IF options.storeTouch
                                THEN Append(storeLog, [op |-> "touch", id |-> s.id])
                                ELSE storeLog
       /\ (FlushStep /\ OnlyDid({"resolve", "set", "delete", "touch", "commit"}))
          => \A i \in 1..Len(sessions) :
                IsTouched(sessions[i]) =>
                   /\ Len(setCookie') = 1
                   /\ HeaderOf(setCookie'[1], sessions[i])]_vars

\* A session with a maxAge was touched twice, the second time after the clock
\* had moved on from its resolution, by a store without touch
C9_Witness ==
    /\ lastOp = [op |-> "touch", s |-> 1] /\ ops >= 3
    /\ did = {"resolve", "touch"}
    /\ ~options.storeTouch
    /\ sessions[1].cookie.maxAge # None
    /\ clock > sessions[1].now
    /\ sessions[1].cookie.expires
          = Some(DateOf(sessions[1].now + Val(sessions[1].cookie.maxAge) * 1000))

(* C10: commit() changes no flag and no field of the session, and may be    *)
(* called any number of times: after each call the store's record under    *)
(* the session's id holds the session's application fields and cookie      *)
(* attributes as they are at that call.                                    *)
C10_CommitPersists ==
    [][StepIs("commit")
       => LET i == lastOp'.s
              s == sessions[i]
          IN  /\ sessions' = sessions
              /\ reqSession' = reqSession /\ hook' = hook
              /\ setCookie' = setCookie
              /\ storeLog' = Append(storeLog, [op |-> "set", id |-> s.id])
              /\ \A id \in Ids \ {s.id} : store'[id] = store[id]
              /\ store'[s.id] # None
              /\ LET r == Val(store'[s.id])
                 IN  /\ r.fields = s.fields
                     /\ r.cookie.path = s.cookie.path
                     /\ r.cookie.httpOnly = s.cookie.httpOnly
                     /\ r.cookie.domain = s.cookie.domain
                     /\ r.cookie.sameSite = s.cookie.sameSite
                     /\ r.cookie.secure = s.cookie.secure
                     /\ r.cookie.maxAge = s.cookie.maxAge
                     /\ (s.cookie.expires = None) = (r.cookie.expires = None)
                     /\ s.cookie.expires # None =>
                           InstantOf(Val(r.cookie.expires))
                              = InstantOf(Val(s.cookie.expires))]_vars

\* A new session was committed, changed, and committed again: the record holds
\* the changed field
C10_Witness ==
    /\ lastOp = [op |-> "commit", s |-> 1] /\ ops = 4
    /\ NumCalls(storeLog, "set") = 2
    /\ IsNew(sessions[1]) /\ sessions[1].fields = ("foo" :> "quz")
    /\ store["g1"] # None
    /\ Val(store["g1"]).fields = ("foo" :> "quz")

----------------------------------------------------------------------------
(* C11, as stated: the record commit() passes to Store.set is the session's *)
(* application fields and cookie only; it contains neither the touch,      *)
(* commit and destroy operations nor the is-new, is-touched and            *)
(* is-destroyed flags.                                                     *)
C11_Original ==
    [][StepIs("commit")
       => /\ setArg' # None
          /\ OwnPropertySymbols(Val(setArg')) = {}
          /\ OwnPropertyNames(Val(setArg')) \cap {"commit", "touch", "destroy"} = {}
          /\ OwnPropertyNames(Val(setArg')) = ObjectKeys(sessions[lastOp'.s])]_vars

(* C11, amended: commit() passes the Session object itself to Store.set.   *)
(* Its enumerable string keys are cookie and the application fields; the   *)
(* operations and id are own properties that are not enumerable, and the   *)
(* flags set on the session are on the object passed.                      *)
C11_CommitPassesSession ==
    [][StepIs("commit")
       => LET s == sessions[lastOp'.s]
          IN  /\ setArg' = Some(s)
              /\ OwnPropertySymbols(Val(setArg')) = s.flags
              /\ ObjectKeys(Val(setArg')) = {"cookie"} \cup DOMAIN s.fields
              /\ OwnPropertyNames(Val(setArg')) \ ObjectKeys(Val(setArg'))
                    = {"commit", "touch", "destroy", "id"}]_vars

\* A populated new session was committed: the object passed carries is-new
C11_Witness ==
    /\ lastOp.op = "commit" /\ setArg # None
    /\ IsNew(Val(setArg)) /\ Populated(Val(setArg))
    /\ Val(setArg) = sessions[lastOp.s]

C14_RoundTrip ==
    [][(StepIs("resolve") /\ prev # None /\ reqSession = 0)
       => LET p == Val(prev)
              r == sessions'[lastOp'.s]
          IN  /\ (/\ reqCookie # None
                  /\ p.setArg # None
                  /\ Val(p.setArg).id = Val(reqCookie)
                  /\ "destroy" \notin p.did
                  /\ \E n \in 1..Len(p.setCookie) :
                        p.setCookie[n].value = Val(reqCookie))
                 => /\ r.id = Val(reqCookie)
                    /\ r.id = Val(p.setArg).id
                    /\ r.fields = Val(p.setArg).fields
                    /\ ~IsNew(r)
              /\ (reqCookie = None \/ store[Val(reqCookie)] = None)
                 => /\ IsNew(r)
                    /\ r.fields = <<>>
                    /\ reqCookie # Some(r.id)
                    /\ \A i \in 1..Len(p.sessions) : r.id # p.sessions[i].id]_vars

\* A request created a session, set a field, committed and sent the cookie;
\* the next request presented it and got the session back with the field
C14_Witness ==
    /\ prev # None
    /\ Val(prev).did = {"resolve", "set", "commit", "finalize"}
    /\ Len(Val(prev).setCookie) = 1
    /\ reqCookie = Some(Val(prev).setCookie[1].value)
    /\ lastOp = [op |-> "resolve", s |-> 1]
    /\ sessions[1].id = "g1" /\ ~IsNew(sessions[1])
    /\ sessions[1].fields = ("foo" :> "quz")

FailsUnsign ==
    /\ reqCookie # None
    /\ \/ "invalid" \in cookieFlags
       \/ /\ options.unsign /\ "signed" \notin cookieFlags
          /\ unsign(Val(reqCookie)) = None

(* C15: when the request's session cookie fails unsign, sessionHandle does  *)
(* not fail: it returns a new session under a freshly generated id, and    *)
(* Store.get is not called with the rejected value (nor at all).           *)
C15_TamperTolerance ==
    [][(StepIs("resolve") /\ reqSession = 0 /\ FailsUnsign)
       => LET r == sessions'[lastOp'.s]
          IN  /\ outcome' = "ok"
              /\ Len(sessions') = Len(sessions) + 1
              /\ lastOp'.s = Len(sessions') /\ reqSession' = lastOp'.s
              /\ IsNew(r) /\ r.fields = <<>>
              /\ genCount' = genCount + 1 /\ r.id = genId(genCount')
              /\ r.id # Val(reqCookie)
              /\ storeLog' = storeLog
              /\ \A n \in 1..Len(storeLog') :
                    storeLog'[n] # [op |-> "get", id |-> Val(reqCookie)]
              /\ store' = store]_vars

\* A forged cookie met a store holding the session it names: a new session
\* was returned and the store was not asked
C15_Witness ==
    /\ lastOp = [op |-> "resolve", s |-> 1] /\ ops = 1
    /\ options.unsign
    /\ reqCookie = Some("s:bad") /\ cookieFlags = {"invalid"}
    /\ store["foo"] # None
    /\ IsNew(sessions[1]) /\ sessions[1].id = "g1"
    /\ storeLog = <<>> /\ outcome = "ok"

\* The automatic touch is due for the record the request's cookie names
TouchDueFor(rec) ==
    /\ options.touchAfter >= 0
    /\ rec.cookie.expires # None
    /\ rec.cookie.maxAge # None
    /\ clock - (InstantOf(Val(rec.cookie.expires)) - Val(rec.cookie.maxAge) * 1000)
          >= options.touchAfter * 1000

\* A store call this resolution makes rejects: Store.get, or Store.touch in the
\* automatic touch
ResolutionStoreFailure ==
    /\ reqCookie # None
    /\ \/ "get" \in failing
       \/ /\ store[Val(reqCookie)] # None
          /\ TouchDueFor(Val(store[Val(reqCookie)]))
          /\ options.storeTouch /\ "touch" \in failing

(* C16: when a store call made during resolution rejects (Store.get, or     *)
(* Store.touch in the automatic touch), sessionHandle rejects, the request *)
(* carries no session afterwards and no late header action was registered; *)
(* a response whose request had no successful resolution gets no cookie.   *)
(* sessionHandle rejects for no other reason.                              *)
C16_ResolveRejects ==
    [][/\ (StepIs("resolve") /\ reqSession = 0 /\ ResolutionStoreFailure)
          => /\ outcome' = "rejected"
             /\ lastOp'.s = 0
             /\ reqSession' = 0
             /\ hook' = hook /\ hookRegs' = hookRegs
             /\ sessions' = sessions
             /\ setCookie' = setCookie
             /\ store' = store
             /\ storeLog' = storeLog
                    \o <<[op |-> "get", id |-> Val(reqCookie)]>>
                    \o (IF "get" \in failing THEN <<>>
                        ELSE <<[op |-> "touch", id |-> Val(reqCookie)]>>)
       /\ (StepIs("resolve") /\ outcome' = "rejected")
          => reqSession = 0 /\ ResolutionStoreFailure
       /\ (FlushStep /\ hookRegs = 0) => setCookie' = <<>>]_vars

\* The automatic touch of a stored session was rejected by the store: the call
\* failed, the request has no session and no late header action
C16_Witness ==
    /\ lastOp = [op |-> "resolve", s |-> 0] /\ outcome = "rejected"
    /\ storeLog = <<[op |-> "get", id |-> "foo"], [op |-> "touch", id |-> "foo"]>>
    /\ reqSession = 0 /\ hook = 0 /\ hookRegs = 0 /\ sessions = <<>>

(* C17: a rejection of Store.set, Store.touch or Store.destroy makes        *)
(* commit(), touch() or destroy() fail; the store call is made once, with  *)
(* no retry, and the failure is never swallowed. These calls fail for no   *)
(* other reason.                                                           *)
C17_RejectionPropagates ==
    [][/\ (StepIs("commit") /\ "set" \in failing)
          => /\ outcome' = "rejected"
             /\ storeLog' = Append(storeLog,
                                   [op |-> "set", id |-> sessions[lastOp'.s].id])
       /\ (StepIs("touch") /\ options.storeTouch /\ "touch" \in failing)
          => /\ outcome' = "rejected"
             /\ storeLog' = Append(storeLog,
                                   [op |-> "touch", id |-> sessions[lastOp'.s].id])
       /\ (StepIs("destroy") /\ "destroy" \in failing)
          => /\ outcome' = "rejected"
             /\ storeLog' = Append(storeLog,
                                   [op |-> "destroy", id |-> sessions[lastOp'.s].id])
       /\ ((StepIs("commit") \/ StepIs("touch") \/ StepIs("destroy"))
              /\ outcome' = "rejected")
          => /\ store' = store
             /\ \/ lastOp'.op = "commit" /\ "set" \in failing
                \/ lastOp'.op = "touch" /\ options.storeTouch /\ "touch" \in failing
                \/ lastOp'.op = "destroy" /\ "destroy" \in failing]_vars

\* commit() on a new session failed with the store's rejection: one Store.set
\* call, no record
C17_Witness ==
    /\ lastOp = [op |-> "commit", s |-> 1] /\ outcome = "rejected"
    /\ IsNew(sessions[1]) /\ Populated(sessions[1])
    /\ NumCalls(storeLog, "set") = 1
    /\ store[sessions[1].id] = None

\* The store holds, under the request's cookie, a record whose cookie.expires
\* is text
TextExpiresStored ==
    /\ reqCookie # None
    /\ store[Val(reqCookie)] # None
    /\ Val(store[Val(reqCookie)]).cookie.expires # None
    /\ Val(Val(store[Val(reqCookie)]).cookie.expires).type = "string"

(* C18, as stated: when the store returns a record whose cookie.expires is  *)
(* text, the session sessionHandle returns has a Date as cookie.expires    *)
(* that denotes the same instant.                                          *)
C18_Original ==
    [][(StepIs("resolve") /\ reqSession = 0 /\ TextExpiresStored)
       => LET rec == Val(store[Val(reqCookie)])
              s == sessions'[lastOp'.s]
          IN  /\ s.cookie.expires # None
              /\ Val(s.cookie.expires).type = "Date"
              /\ GetTime(Val(s.cookie.expires)) = Val(rec.cookie.expires).iso]_vars

(* C18, amended: the session returned has a Date as cookie.expires. The    *)
(* text is converted before the automatic touch is decided, and the        *)
(* decision is taken on the instant the text denotes. When the automatic   *)
(* touch does not fire the Date denotes the same instant as the text; when *)
(* it fires, cookie.expires is the Date now + maxAge*1000.                 *)
C18_StringDateNormalized ==
    [][(StepIs("resolve") /\ reqSession = 0 /\ TextExpiresStored)
       => LET rec == Val(store[Val(reqCookie)])
              s == sessions'[lastOp'.s]
          IN  /\ s.cookie.expires # None
              /\ Val(s.cookie.expires).type = "Date"
              /\ IsTouched(s) <=> TouchDueFor(rec)
              /\ ~IsTouched(s)
                 => GetTime(Val(s.cookie.expires)) = Val(rec.cookie.expires).iso
              /\ IsTouched(s)
                 => GetTime(Val(s.cookie.expires))
                       = clock + Val(rec.cookie.maxAge) * 1000]_vars

\* A record with a textual expires was resolved some time after it was written,
\* with the automatic touch off: a Date for the same instant
C18_Witness ==
    /\ lastOp = [op |-> "resolve", s |-> 1] /\ ops = 1
    /\ sessions[1].id = "foo" /\ ~IsTouched(sessions[1])
    /\ options.touchAfter = -1
    /\ sessions[1].now > StartClock
    /\ store["foo"] # None
    /\ Val(store["foo"]).cookie.expires # None
    /\ Val(Val(store["foo"]).cookie.expires).type = "string"
    /\ sessions[1].cookie.expires
          = Some(DateOf(Val(Val(store["foo"]).cookie.expires).iso))

(* C19: when the response headers are already sent at the time the late    *)
(* header action runs, nothing is appended and no error is raised, also    *)
(* when the session is destroyed, touched, or new and populated.           *)
C19_NoopAfterHeadersSent ==
    [][(StepIs("finalize") /\ headersSent)
       => /\ setCookie' = setCookie
          /\ outcome' = "ok"]_vars

\* The headers were sent while the new session was empty; it was populated
\* afterwards and the response finalized again: no header, no error
C19_Witness ==
    /\ lastOp.op = "finalize" /\ finalized = 2 /\ headersSent
    /\ hook # 0
    /\ IsNew(sessions[hook]) /\ Populated(sessions[hook])
    /\ setCookie = <<>> /\ outcome = "ok"

(* C20: for every sequence of operations on a session handle, when the     *)
(* session is destroyed at the time the late header action runs, the       *)
(* cookie it emits carries an Expires that has already passed; a touch()   *)
(* after destroy() does not give it a future expiry.                       *)
C20_DestroyedCookieExpired ==
    [][(FlushStep /\ hook # 0 /\ IsDestroyed(sessions[hook]))
       => /\ Len(setCookie') = Len(setCookie) + 1
          /\ setCookie'[Len(setCookie')].value = sessions[hook].id
          /\ setCookie'[Len(setCookie')].expires # None
          /\ InstantOf(Val(setCookie'[Len(setCookie')].expires)) < clock]_vars

(* C21: the emission decision is taken once, on the session as it is when   *)
(* the headers are flushed. A new session whose field was set and removed  *)
(* again before the flush gets no cookie; one that holds a field at the    *)
(* flush gets the cookie; and once the headers are sent, no field change,  *)
(* touch or destroy (nor a further writeHead/end) adds a cookie.           *)
C21_DecidedAtFlush ==
    [][/\ (FlushStep /\ hook # 0)
          => LET s == sessions[hook]
             IN  /\ (IsNew(s) /\ ~Populated(s) /\ ~IsTouched(s) /\ ~IsDestroyed(s))
                    => setCookie' = setCookie
                 /\ (IsNew(s) /\ Populated(s))
                    => /\ Len(setCookie') = Len(setCookie) + 1
                       /\ HeaderOf(setCookie'[Len(setCookie')], s)
       /\ headersSent => setCookie' = setCookie
       /\ setCookie' # setCookie => FlushStep /\ Len(setCookie') = 1]_vars

\* A new session had a field set and removed again, then the headers were
\* flushed: no cookie
C21_Witness ==
    /\ lastOp.op = "finalize" /\ finalized = 1
    /\ did = {"resolve", "set", "delete", "finalize"}
    /\ hook = 1 /\ IsNew(sessions[1]) /\ ~Populated(sessions[1])
    /\ setCookie = <<>>

\* cookie.expires and cookie.maxAge are both set or both unset
Paired(c) == (c.expires # None) <=> (c.maxAge # None)

(* C22, as stated: in every state of every session, cookie.expires is set  *)
(* if and only if cookie.maxAge is set.                                    *)
C22_Original ==
    \A i \in 1..Len(sessions) : Paired(sessions[i].cookie)

(* C22, amended: cookie.maxAge set implies cookie.expires set, always. The *)
(* converse holds for a new session as created, and touch(), commit() and  *)
(* field changes keep it; destroy() sets cookie.expires to Date(1) and     *)
(* leaves maxAge alone, so a destroyed session without maxAge has expires  *)
(* without maxAge; a rehydrated session has expires and maxAge set as in   *)
(* the record, which lacks maxAge when it was committed after destroy().   *)
C22_ExpiresMaxAgePairing ==
    [][/\ \A i \in 1..Len(sessions') :
             /\ sessions'[i].cookie.maxAge # None => sessions'[i].cookie.expires # None
             /\ ~Paired(sessions'[i].cookie)
                => IsDestroyed(sessions'[i]) \/ ~IsNew(sessions'[i])
       /\ (StepIs("resolve") /\ reqSession = 0)
          => LET s == sessions'[lastOp'.s]
             IN  IF IsNew(s) THEN Paired(s.cookie)
                 ELSE LET rec == Val(store[Val(reqCookie)])
                      IN  /\ (s.cookie.expires # None) <=> (rec.cookie.expires # None)
                          /\ s.cookie.maxAge = rec.cookie.maxAge
       /\ (StepIs("touch") \/ StepIs("commit") \/ StepIs("set") \/ StepIs("delete"))
          => /\ Paired(sessions[lastOp'.s].cookie) => Paired(sessions'[lastOp'.s].cookie)
             /\ sessions'[lastOp'.s].cookie.maxAge = sessions[lastOp'.s].cookie.maxAge
       /\ StepIs("destroy")
          => /\ sessions'[lastOp'.s].cookie.expires = Some(DateOf(1))
             /\ sessions'[lastOp'.s].cookie.maxAge = sessions[lastOp'.s].cookie.maxAge]_vars

\* A session without maxAge was destroyed and then committed; the next request
\* presented its id and got a session that has expires and no maxAge
C22_Witness ==
    /\ prev # None
    /\ {"destroy", "commit"} \subseteq Val(prev).did
    /\ lastOp = [op |-> "resolve", s |-> 1]
    /\ ~IsNew(sessions[1]) /\ ~IsDestroyed(sessions[1])
    /\ sessions[1].cookie.expires # None /\ sessions[1].cookie.maxAge = None

\* The store holds a record under the id the request's cookie carries
RecordMatches == reqCookie # None /\ store[Val(reqCookie)] # None

(* C23: a session is new exactly when sessionHandle created it because no   *)
(* store record matched, and stays so; a session rehydrated from a record  *)
(* is not new and not destroyed, and touched only if the automatic touch   *)
(* fired, also when the record was written by commit() of a session that   *)
(* was new. So a rehydrated session that is neither touched nor destroyed, *)
(* its fields changed and committed or not, gets no cookie at the flush.   *)
C23_IsNewOnlyWithoutRecord ==
    [][/\ (StepIs("resolve") /\ reqSession = 0)
          => LET s == sessions'[lastOp'.s]
             IN  /\ IsNew(s) <=> ~RecordMatches
                 /\ RecordMatches
                    => /\ s.id = Val(reqCookie)
                       /\ ~IsDestroyed(s)
                       /\ IsTouched(s) <=> TouchDueFor(Val(store[Val(reqCookie)]))
                 /\ (/\ prev # None /\ reqCookie # None
                     /\ Val(prev).setArg # None
                     /\ IsNew(Val(Val(prev).setArg))
                     /\ Val(Val(prev).setArg).id = Val(reqCookie))
                    => ~IsNew(s) /\ s.id = Val(reqCookie)
       /\ prev' = prev
          => \A i \in 1..Len(sessions) : IsNew(sessions'[i]) <=> IsNew(sessions[i])
       /\ (/\ FlushStep /\ hook # 0
           /\ ~IsNew(sessions[hook])
           /\ ~IsTouched(sessions[hook]) /\ ~IsDestroyed(sessions[hook]))
          => setCookie' = <<>>]_vars

\* A new session was committed with a field; the next request got it back from
\* the store, removed the field, committed and ended the response: no cookie
C23_Witness ==
    /\ prev # None
    /\ Val(prev).setArg # None /\ IsNew(Val(Val(prev).setArg))
    /\ Val(Val(prev).setArg).fields = ("foo" :> "quz")
    /\ did = {"resolve", "delete", "commit", "finalize"}
    /\ lastOp.op = "finalize"
    /\ sessions[1].id = Val(Val(prev).setArg).id
    /\ sessions[1].flags = {} /\ sessions[1].fields = <<>>
    /\ Val(store[sessions[1].id]).fields = <<>>
    /\ setCookie = <<>>

\* now - (cookie.expires - maxAge*1000) of a session, in milliseconds, as the
\* resolution that returned it computes it
Staleness(s) ==
    s.now - (GetTime(Val(s.cookie.expires)) - Val(s.cookie.maxAge) * 1000)

(* C24, as stated: with touchAfter = T >= 0, a rehydrated session whose     *)
(* cookie.expires is set has, when sessionHandle returns it, a staleness   *)
(* now - (cookie.expires - maxAge*1000) of at most T*1000 ms. (Without a   *)
(* maxAge the difference is not a number and is at most nothing.)          *)
C24_Original ==
    [][(/\ StepIs("resolve") /\ reqSession = 0
        /\ options.touchAfter >= 0
        /\ RecordMatches
        /\ sessions'[lastOp'.s].cookie.expires # None)
       => LET s == sessions'[lastOp'.s]
          IN  /\ s.cookie.maxAge # None
              /\ Staleness(s) <= options.touchAfter * 1000]_vars

(* C24, amended: the bound holds for a rehydrated session whose            *)
(* cookie.expires and cookie.maxAge are both set: its staleness is 0 when  *)
(* the automatic touch fired and below T*1000 otherwise. A record with     *)
(* expires and no maxAge (committed after destroy()) is never touched      *)
(* automatically and keeps the expires it was stored with.                 *)
C24_StalenessBounded ==
    [][(/\ StepIs("resolve") /\ reqSession = 0
        /\ options.touchAfter >= 0
        /\ RecordMatches
        /\ sessions'[lastOp'.s].cookie.expires # None)
       => LET s == sessions'[lastOp'.s]
              rec == Val(store[Val(reqCookie)])
          IN  /\ s.now = clock
              /\ s.cookie.maxAge # None
                 => /\ Staleness(s) >= 0
                    /\ Staleness(s) <= options.touchAfter * 1000
                    /\ IsTouched(s) => Staleness(s) = 0
                    /\ ~IsTouched(s) => Staleness(s) < options.touchAfter * 1000
              /\ s.cookie.maxAge = None
                 => /\ ~IsTouched(s)
                    /\ GetTime(Val(s.cookie.expires))
                          = InstantOf(Val(rec.cookie.expires))]_vars

\* With touchAfter = 1 a session saved 500 ms ago was rehydrated: not touched,
\* its expiry 500 ms stale
C24_Witness ==
    /\ prev # None
    /\ lastOp = [op |-> "resolve", s |-> 1]
    /\ options.touchAfter = 1
    /\ ~IsNew(sessions[1]) /\ ~IsTouched(sessions[1])
    /\ sessions[1].cookie.expires # None /\ sessions[1].cookie.maxAge # None
    /\ Staleness(sessions[1]) = TickMs

(* C25: resolving a stored session changes its cookie.expires only when the *)
(* automatic touch fires. When it does not fire, the expiry is the stored  *)
(* one and, the handler doing no touch or destroy, no cookie is emitted;   *)
(* when it fires, the new expiry is not earlier than the stored one, and   *)
(* strictly later when time has passed since the last touch.               *)
C25_ExpiryMovesOnlyOnAutoTouch ==
    [][/\ (StepIs("resolve") /\ reqSession = 0 /\ RecordMatches)
          => LET s == sessions'[lastOp'.s]
                 rec == Val(store[Val(reqCookie)])
             IN  /\ IsTouched(s) <=> TouchDueFor(rec)
                 /\ (rec.cookie.expires = None) <=> (s.cookie.expires = None)
                 /\ rec.cookie.expires # None
                    => LET stored == InstantOf(Val(rec.cookie.expires))
                           new == GetTime(Val(s.cookie.expires))
                       IN  /\ new # stored => IsTouched(s)
                           /\ ~IsTouched(s) => new = stored
                           /\ IsTouched(s)
                              => /\ new >= stored
                                 /\ clock > stored - Val(rec.cookie.maxAge) * 1000
                                    => new > stored
       /\ (/\ FlushStep
           /\ OnlyDid({"resolve", "set", "delete", "commit", "finalize"})
           /\ hook # 0 /\ ~IsNew(sessions[hook]))
          => IF IsTouched(sessions[hook])
             THEN Len(setCookie') = 1 /\ HeaderOf(setCookie'[1], sessions[hook])
             ELSE setCookie' = <<>>]_vars

\* With touchAfter = 1 a session last touched a second ago was resolved: it was
\* touched and its expiry moved forward by that second
C25_Witness ==
    /\ lastOp = [op |-> "resolve", s |-> 1] /\ ops = 1
    /\ options.touchAfter = 1
    /\ IsTouched(sessions[1]) /\ sessions[1].id = "foo"
    /\ store["foo"] # None
    /\ sessions[1].now > StartClock
    /\ GetTime(Val(sessions[1].cookie.expires))
          = StartClock + Val(sessions[1].cookie.maxAge) * 1000
               + (sessions[1].now - StartClock)

\* The ids genId has produced so far
Generated(n) == {genId(k) : k \in 1..n}

(* C28: the id of a session is an id under which Store.get returned a       *)
(* record, or a value genId produced. A cookie value the client sent that  *)
(* matches no store record is not adopted as the id of the new session,    *)
(* and while no session carries it, it is used in no Store.set, touch or   *)
(* destroy call, the store's content under it does not change (nothing is *)
(* there when it matched no record) and no Set-Cookie header carries it.   *)
C28_IdFromStoreOrGenId ==
    [][/\ (StepIs("resolve") /\ reqSession = 0)
          => LET s == sessions'[lastOp'.s]
             IN  IF RecordMatches
                 THEN /\ s.id = Val(reqCookie)
                      /\ storeLog' # storeLog
                      /\ storeLog'[Len(storeLog) + 1] = [op |-> "get", id |-> s.id]
                 ELSE /\ s.id = genId(genCount') /\ genCount' = genCount + 1
                      /\ s.id \notin Generated(genCount)
                      /\ reqCookie # Some(s.id)
       /\ \A i \in 1..Len(sessions') :
             \/ sessions'[i].id \in Generated(genCount')
             \/ /\ ~IsNew(sessions'[i])
                /\ Some(sessions'[i].id) = reqCookie'
                /\ \E n \in 1..Len(storeLog') :
                      storeLog'[n] = [op |-> "get", id |-> sessions'[i].id]
       /\ (/\ reqCookie' # None
           /\ \A i \in 1..Len(sessions') : sessions'[i].id # Val(reqCookie'))
          => /\ store'[Val(reqCookie')] = store[Val(reqCookie')]
             /\ ~RecordMatches => store'[Val(reqCookie')] = None
             /\ \A n \in 1..Len(storeLog') :
                   storeLog'[n].id = Val(reqCookie') => storeLog'[n].op = "get"
             /\ \A n \in 1..Len(setCookie') :
                   setCookie'[n].value # Val(reqCookie')]_vars

\* The client sent an id the store does not know; the new session got a
\* generated id, was populated and committed, and its cookie went out
C28_Witness ==
    /\ reqCookie = Some("foo")
    /\ did = {"resolve", "set", "commit", "finalize"}
    /\ Len(sessions) = 1 /\ IsNew(sessions[1]) /\ sessions[1].id = genId(1)
    /\ storeLog = <<[op |-> "get", id |-> "foo"], [op |-> "set", id |-> genId(1)]>>
    /\ store["foo"] = None /\ store[genId(1)] # None
    /\ Len(setCookie) = 1 /\ setCookie[1].value = genId(1)

(* C29: a failed store call leaves the session partly updated. When        *)
(* Store.touch rejects, touch() has already set cookie.expires (maxAge     *)
(* being set) and the touched flag is left as it was; when Store.destroy   *)
(* rejects, the session is flagged destroyed with an elapsed expiry, stays *)
(* attached to the request, so later sessionHandle calls return it, and    *)
(* the store keeps its record; at the flush the clearing cookie is still   *)
(* emitted.                                                                *)
C29_PartialUpdateOnFailure ==
    [][/\ (StepIs("touch") /\ outcome' = "rejected")
          => LET s == sessions[lastOp'.s]
                 t == sessions'[lastOp'.s]
             IN  /\ t.flags = s.flags
                 /\ s.cookie.maxAge # None
                    => t.cookie.expires
                          = Some(DateOf(s.now + Val(s.cookie.maxAge) * 1000))
                 /\ store' = store
       /\ (StepIs("destroy") /\ outcome' = "rejected")
          => LET t == sessions'[lastOp'.s]
             IN  /\ IsDestroyed(t)
                 /\ t.cookie.expires = Some(DateOf(1))
                 /\ reqSession' = reqSession
                 /\ store' = store
       /\ (StepIs("resolve") /\ reqSession # 0 /\ IsDestroyed(sessions[reqSession]))
          => /\ lastOp'.s = reqSession /\ reqSession' = reqSession
             /\ sessions' = sessions /\ storeLog' = storeLog
       /\ (/\ FlushStep /\ "destroy" \in failing
           /\ hook # 0 /\ IsDestroyed(sessions[hook]))
          => /\ Len(setCookie') = 1
             /\ setCookie'[1].value = sessions[hook].id
             /\ "touch" \notin did => setCookie'[1].expires = Some(DateOf(1))]_vars

\* Store.destroy rejected for a stored session; sessionHandle returned the
\* session again, the response got the clearing cookie, the record is there
C29_Witness ==
    /\ lastOp.op = "finalize" /\ ops = 4 /\ finalized = 1
    /\ did = {"resolve", "destroy", "finalize"}
    /\ "destroy" \in failing
    /\ Len(sessions) = 1 /\ reqSession = 1
    /\ IsDestroyed(sessions[1]) /\ sessions[1].id = "foo"
    /\ store["foo"] # None
    /\ NumCalls(storeLog, "get") = 1 /\ NumCalls(storeLog, "destroy") = 1
    /\ Len(setCookie) = 1 /\ setCookie[1].expires = Some(DateOf(1))

(* C27: when sessionHandle calls of one request overlap (a second starts    *)
(* while the first awaits Store.get), the request still has a single       *)
(* session: every call returns the same Session, Store.get is called at    *)
(* most once and the late header action is registered once.                *)
C27_OverlappingResolveOneSession ==
    /\ Len(sessions) <= 1
    /\ lastOp.op = "resolve" => lastOp.s = 1
    /\ NumCalls(storeLog, "get") <= 1
    /\ hookRegs <= 1

(* C26: two requests handled at the same time that rehydrated the same id   *)
(* hold Session objects of their own: a step of one handler leaves the     *)
(* other request's sessions as they are, and field changes reach the store *)
(* only through commit(). Each commit() succeeds and replaces the record:  *)
(* after it the store holds under the id exactly the committing session's  *)
(* fields, whatever the other request committed before; nothing is merged  *)
(* and no conflict is reported.                                            *)
C26_LastWriteWins ==
    [][/\ other' # other
          => /\ other # None /\ other' # None
             /\ Val(other').sessions = sessions
             /\ sessions' = Val(other).sessions
             /\ store' = store
       /\ ((StepIs("set") \/ StepIs("delete")) /\ other' = other)
          => store' = store
       /\ (StepIs("commit") /\ other' = other)
          => LET s == sessions[lastOp'.s]
             IN  /\ outcome' = "ok"
                 /\ store'[s.id] # None
                 /\ Val(store'[s.id]).fields = s.fields
                 /\ Val(store'[s.id]).cookie.maxAge = s.cookie.maxAge
                 /\ \A id \in Ids \ {s.id} : store'[id] = store[id]]_vars

\* Both requests rehydrated the session foo; one set a field and committed,
\* then the other removed the field and committed: the record has no field,
\* the first request's change is gone
C26_Witness ==
    /\ other # None
    /\ Val(other).lastOp.op = "commit" /\ Val(other).setArg # None
    /\ Val(Val(other).setArg).id = "foo"
    /\ Val(Val(other).setArg).fields = ("foo" :> "quz")
    /\ lastOp = [op |-> "commit", s |-> 1]
    /\ sessions[1].id = "foo" /\ sessions[1].fields = <<>>
    /\ "delete" \in did
    /\ Val(store["foo"]).fields = <<>>

====
